---- MODULE Spec2Model ----
(***************************************************************************)
(* Model of the Klash market resolution engine                             *)
(* (klash-backend/src/python/market_resolver.py and team_classifier.py).   *)
(*                                                                         *)
(* One MarketResolver object serves a sequence of resolve_market calls.    *)
(* A call is followed through validation, dispatch, lazy model             *)
(* initialisation, the per-tweet loop and the final aggregation.           *)
(* classify_teams, the entry point of team_classifier.py run as a script,  *)
(* is a process of its own (SpecTeams): one run over one input; so is      *)
(* analyze_sentiment_hf, the entry point of sentiment_hf.py (SpecHf).      *)
(*                                                                         *)
(* Numbers.  Classifier scores are fixed-point hundredths (60 is 0.6).     *)
(* Sums of scores are exact: the zero-shot pipeline yields single          *)
(* precision scores, whose sums Python floats hold exactly.                *)
(* support_percentage is kept in hundredths of a percent, avg_confidence   *)
(* and confidence in units of 0.0001, so that Python's round(x, 2) and     *)
(* round(x, 4) are RoundHalfEven on the exact quotient (the two agree for  *)
(* every count/total with total below 160).                                 *)
(***************************************************************************)
EXTENDS Integers, Sequences, FiniteSets, TLC

VARIABLES
    sentiment_analyzer,  \* self.sentiment_analyzer: handle state
    team_classifier,     \* self.team_classifier: handle state
    pc,                  \* position of the current resolve_market call
    market_data,         \* argument of the current call
    idx,                 \* number of reply_tweets already iterated
    outcome_counts,      \* local dict outcome -> {count, confidence_sum}
    total_analyzed,      \* local counter
    classify_calls,      \* indices of reply_tweets passed to classify_tweet
    model_calls,         \* indices of reply_tweets that reached the pipeline
    result,              \* what the call hands to its caller
    teams_pc,            \* position of the classify_teams run
    data,                \* what classify_teams reads from stdin
    tweet_idx,           \* number of tweets already iterated by classify_teams
    team_stats,          \* local dict team -> statistics
    unclassified_count,  \* local counter
    total_classified,    \* local: sum of the counts
    winning_team,        \* local: the team selected so far
    log,                 \* the INFO records of classify_teams about dominance
    teams_result,        \* what classify_teams returns
    hf_pc,               \* position of the analyze_sentiment_hf run
    hf_tweets,           \* what analyze_sentiment_hf reads from stdin (tweets)
    analyzer,            \* local: the SentimentAnalyzer handle
    hf_idx,              \* number of tweets already iterated
    results,             \* local list of per-tweet results
    total_polarity,      \* local sum
    total_confidence,    \* local sum
    hf_result            \* what analyze_sentiment_hf returns

resolverVars == <<sentiment_analyzer, team_classifier, pc, market_data, idx,
                  outcome_counts, total_analyzed, classify_calls, model_calls, result>>

teamsVars == <<teams_pc, data, tweet_idx, team_stats, unclassified_count,
               total_classified, winning_team, log, teams_result>>

hfVars == <<hf_pc, hf_tweets, analyzer, hf_idx, results, total_polarity, total_confidence,
            hf_result>>

vars == <<resolverVars, teamsVars, hfVars>>

handles == <<sentiment_analyzer, team_classifier>>

(***************************************************************************)
(* Bounds of the explored input space.                                     *)
(***************************************************************************)
MaxTweets == 3

MaxWideOutcomes == 32

MaxWideCount == 2

MaxTeamTweets == 3

MaxSupporters == 102

MaxHfTweets == 3

(***************************************************************************)
(* Program constants.                                                      *)
(***************************************************************************)
\* MarketResolver.min_confidence = 0.6
ResolverMinConfidence == 60

\* TeamClassifier.min_confidence = 0.5
ClassifierMinConfidence == 50

\* "percentage" >= 95.0 (line 186)
DominancePercentage == 95

\* supporters[:100] (line 194)
SupportersKept == 100

None == "<None>"

(***************************************************************************)
(* Arithmetic helpers.                                                     *)
(***************************************************************************)
\* Python round(): nearest, ties to even, of num/den (num >= 0, den > 0)
RoundHalfEven(num, den) ==
    LET q == num \div den
        r == num % den
    IN  IF 2 * r < den THEN q
        ELSE IF 2 * r > den THEN q + 1
        ELSE IF q % 2 = 0 THEN q ELSE q + 1

\* The loops of the code are recursions that carry the loop's variables.  The
\* carried value is looked at first (acc = acc) so that it is computed before
\* the loop goes on, which keeps the evaluation shallow for long sequences.
RECURSIVE SumFrom(_, _)
SumFrom(acc, s) ==
    IF acc = acc /\ s = <<>> THEN acc ELSE SumFrom(acc + Head(s), Tail(s))

SumSeq(s) == SumFrom(0, s)

BoundedSeq(S, n) == UNION {[1..k -> S] : k \in 0..n}

Range(s) == {s[k] : k \in 1..Len(s)}

\* list.index(x): position of the first occurrence
IndexOf(s, x) == CHOOSE k \in 1..Len(s) : s[k] = x /\ \A j \in 1..(k - 1) : s[j] # x

\* iteration order of a dict built from the list s: first occurrences, in order
RECURSIVE DictKeysFrom(_, _)
DictKeysFrom(keys, s) ==
    IF keys = keys /\ s = <<>> THEN keys
    ELSE DictKeysFrom(IF Head(s) \in Range(keys) THEN keys ELSE Append(keys, Head(s)),
                      Tail(s))

DictKeys(s) == DictKeysFrom(<<>>, s)

(***************************************************************************)
(* Inputs: reply tweets.  A tweet carries what the zero-shot pipeline      *)
(* answers for its text (the pipeline is idempotent for identical input).  *)
(*   malformed : not a dict, or a dict without 'text'                      *)
(*   blank     : text empty or whitespace only                             *)
(*   raises    : the pipeline call raises for this text                    *)
(*   scored    : the pipeline returns label as best label, with score      *)
(***************************************************************************)
Judgments == { <<"Yes", 40>>, <<"No", 55>>, <<"Yes", 60>>, <<"Yes", 85>>, <<"No", 85>> }

Scored(l, s) == [kind |-> "scored", label |-> l, score |-> s]

Unscored(k) == [kind |-> k, label |-> None, score |-> 0]

Tweets == {Unscored("malformed"), Unscored("blank"), Unscored("raises")}
              \cup {Scored(j[1], j[2]) : j \in Judgments}

(***************************************************************************)
(* Inputs: market_data.  kind is the Python type of the argument; fields   *)
(* is the set of keys present when it is a dict.                           *)
(***************************************************************************)
RequiredFields == <<"market_id", "question", "outcomes", "resolution_method">>

AllFields == Range(RequiredFields) \cup {"reply_tweets"}

Market(kind, fields, outcomes_is_list, outcomes, method, tweets) ==
    [kind |-> kind, fields |-> fields, market_id |-> "market_123",
     question |-> "Will Bitcoin hit $100k by end of 2025?",
     outcomes_is_list |-> outcomes_is_list, outcomes |-> outcomes,
     resolution_method |-> method, reply_tweets |-> tweets]

YesNo == <<"Yes", "No">>

YesNoMaybe == <<"Yes", "No", "Maybe">>

\* markets resolved by sentiment over every batch of at most MaxTweets tweets
SentimentMarkets ==
    { Market("dict", AllFields, TRUE, YesNoMaybe, "sentiment", t) :
        t \in BoundedSeq(Tweets, MaxTweets) }

\* the batch of the specification's scenario: Yes at 0.9, 0.8, 0.7 and No at
\* 0.75, 0.65
ScenarioBatch == <<Scored("Yes", 90), Scored("No", 75), Scored("Yes", 80),
                   Scored("No", 65), Scored("Yes", 70)>>

SmallBatches == { <<>>,
                  ScenarioBatch,
                  <<Scored("Yes", 60)>>,
                  <<Scored("No", 85), Unscored("raises"), Scored("Yes", 60)>>,
                  <<Scored("Yes", 60), Scored("No", 85), Scored("Maybe", 85)>> }

MethodSpellings == {"sentiment", "Sentiment", "SENTIMENT", "oracle", "Oracle", "ORACLE",
                    "manual", "Manual", "MANUAL", "vote", ""}

\* the other dispatches, spellings and duplicate outcomes, over a few batches
DispatchMarkets ==
    { Market("dict", AllFields, TRUE, o, m, t) :
        o \in {YesNo, YesNoMaybe, <<"Yes", "Yes">>, <<"Yes", "No", "Yes">>},
        m \in MethodSpellings, t \in SmallBatches }

\* markets with a key left out or outcomes of the wrong shape, and arguments
\* that are not a mapping
PartialMarkets ==
    { Market("dict", AllFields \ {f}, TRUE, YesNo, m, t) :
        f \in AllFields, m \in {"sentiment", "oracle"}, t \in SmallBatches }
    \cup { Market("dict", AllFields, l, o, m, t) :
        l \in BOOLEAN, o \in {<<>>, <<"OnlyOne">>}, m \in {"sentiment", "manual"},
        t \in SmallBatches }
    \cup { Market("dict", AllFields, FALSE, YesNo, "sentiment", t) : t \in SmallBatches }
    \cup { Market(k, {}, FALSE, <<>>, "", <<>>) : k \in {"list", "null"} }

MarketData == SentimentMarkets \cup DispatchMarkets \cup PartialMarkets

NoMarket == Market("null", {}, FALSE, <<>>, "", <<>>)

\* market_data.get(field, default) on a dict
Get(md, field, default) ==
    IF field \in md.fields
    THEN CASE field = "market_id" -> md.market_id
           [] field = "question" -> md.question
           [] field = "outcomes" -> md.outcomes
           [] field = "resolution_method" -> md.resolution_method
           [] field = "reply_tweets" -> md.reply_tweets
    ELSE default

\* str.lower() on the method strings
Lower(s) ==
    CASE s \in {"Sentiment", "SENTIMENT"} -> "sentiment"
      [] s \in {"Oracle", "ORACLE"} -> "oracle"
      [] s \in {"Manual", "MANUAL"} -> "manual"
      [] OTHER -> s

(***************************************************************************)
(* Records handed to the caller.                                           *)
(***************************************************************************)
NoResult == [returned |-> FALSE]

\* an exception that leaves resolve_market
Raised(exc) == [returned |-> FALSE, raised |-> exc]

\* MarketResolver._pending_resolution
PendingResolution(md, method, message) ==
    [market_id |-> Get(md, "market_id", ""),
     question |-> Get(md, "question", ""),
     outcomes |-> Get(md, "outcomes", <<>>),
     winning_outcome |-> None,
     winning_index |-> -1,
     confidence |-> 0,
     resolution_method |-> method,
     status |-> "pending",
     message |-> message]

\* the default of the message parameter of _pending_resolution
DefaultPendingMessage == "Pending manual resolution"

\* the message of the pending record of a dispatch to method: resolve_market
\* passes no message, for "oracle" as for "manual"
DispatchMessage(method) == DefaultPendingMessage

\* MarketResolver._create_error_response; market_data.get exists on a dict only
CreateErrorResponse(md, error_msg) ==
    IF md.kind = "dict"
    THEN [market_id |-> Get(md, "market_id", "unknown"),
          question |-> Get(md, "question", ""),
          outcomes |-> Get(md, "outcomes", <<>>),
          error |-> error_msg,
          status |-> "error"]
    ELSE Raised("AttributeError")

IsDecided(r) == "sentiment_breakdown" \in DOMAIN r

IsPending(r) == "status" \in DOMAIN r /\ r.status = "pending"

IsError(r) == "status" \in DOMAIN r /\ r.status = "error"

IsRaised(r) == "raised" \in DOMAIN r

\* (variant) a single outcome is let through
ValidateMarketDataOneOutcome(md) ==
    IF md.kind = "null" THEN "argument of type 'NoneType' is not iterable"
    ELSE LET missing == {k \in 1..Len(RequiredFields) : RequiredFields[k] \notin md.fields}
         IN  IF missing # {}
             THEN "Missing required field: "
                      \o RequiredFields[CHOOSE k \in missing : \A j \in missing : k <= j]
             ELSE IF ~md.outcomes_is_list \/ Len(md.outcomes) < 1
                  THEN "At least two outcomes are required"
                  ELSE None

(***************************************************************************)
(* MarketResolver._validate_market_data: the message of the exception it   *)
(* raises, or None when the market passes.                                 *)
(***************************************************************************)
ValidateMarketData(md) ==
    IF md.kind = "null" THEN "argument of type 'NoneType' is not iterable"
    ELSE LET missing == {k \in 1..Len(RequiredFields) : RequiredFields[k] \notin md.fields}
         IN  IF missing # {}
             THEN "Missing required field: "
                      \o RequiredFields[CHOOSE k \in missing : \A j \in missing : k <= j]
             ELSE IF ~md.outcomes_is_list \/ Len(md.outcomes) < 2
                  THEN "At least two outcomes are required"
                  ELSE None

(***************************************************************************)
(* TeamClassifier.classify_tweet on a well-formed tweet.  handle is the    *)
(* state of the TeamClassifier object.  raised: the exception leaves       *)
(* classify_tweet; model: the pipeline was invoked.                        *)
(***************************************************************************)
Judgment(team, confidence, raised, model) ==
    [team |-> team, confidence |-> confidence, raised |-> raised, model |-> model]

\* (variant) a blank text is handed to the pipeline like any other
ClassifyTweetBlankToModel(handle, tweet, team_labels) ==
    IF handle # "loaded"
    THEN Judgment(None, 0, TRUE, FALSE)
    ELSE IF tweet.kind \in {"blank", "raises"}
    THEN Judgment(None, 0, FALSE, TRUE)
    ELSE Judgment(IF tweet.score >= ClassifierMinConfidence THEN tweet.label ELSE None,
                  tweet.score, FALSE, TRUE)

ClassifyTweet(handle, tweet, team_labels) ==
    IF handle # "loaded"
    THEN \* self.classifier was never assigned: AttributeError before the try
         Judgment(None, 0, TRUE, FALSE)
    ELSE IF tweet.kind = "blank"
    THEN Judgment(None, 0, FALSE, FALSE)
    ELSE IF tweet.kind = "raises"
    THEN Judgment(None, 0, FALSE, TRUE)
    ELSE Judgment(IF tweet.score >= ClassifierMinConfidence THEN tweet.label ELSE None,
                  tweet.score, FALSE, TRUE)

(***************************************************************************)
(* One iteration of the loop of _resolve_by_sentiment.                     *)
(***************************************************************************)
WellFormed(tweet) == tweet.kind # "malformed"

\* (variant) the classifier's own threshold is applied instead of the resolver's
AcceptsAtClassifierThreshold(j, counts) ==
    ~j.raised /\ j.confidence >= ClassifierMinConfidence /\ j.team \in DOMAIN counts

\* the test that lets a judgment into the tally
Accepts(j, counts) ==
    ~j.raised /\ j.confidence >= ResolverMinConfidence /\ j.team \in DOMAIN counts

\* (variant) the confidence is stored instead of added
AccumulateOverwriting(counts, j) ==
    [counts EXCEPT ![j.team] = [count |-> @.count + 1, confidence_sum |-> j.confidence]]

Accumulate(counts, j) ==
    [counts EXCEPT ![j.team] = [count |-> @.count + 1,
                               confidence_sum |-> @.confidence_sum + j.confidence]]

InitialCounts(outcomes) == [o \in Range(outcomes) |-> [count |-> 0, confidence_sum |-> 0]]

\* (variant) total_analyzed is incremented before the tweet is classified
TallyTweetCountingFirst(handle, outcomes, tally, tweet) ==
    IF ~WellFormed(tweet) THEN tally
    ELSE LET j == ClassifyTweet(handle, tweet, outcomes)
         IN  IF Accepts(j, tally.counts)
             THEN [counts |-> Accumulate(tally.counts, j), total |-> tally.total + 1]
             ELSE [tally EXCEPT !.total = @ + 1]

\* tally after one more tweet; tally is [counts, total]
TallyTweet(handle, outcomes, tally, tweet) ==
    IF ~WellFormed(tweet) THEN tally
    ELSE LET j == ClassifyTweet(handle, tweet, outcomes)
         IN  IF Accepts(j, tally.counts)
             THEN [counts |-> Accumulate(tally.counts, j), total |-> tally.total + 1]
             ELSE tally

\* the rest of the loop, over the tweets not yet iterated
RECURSIVE TallyFrom(_, _, _, _)
TallyFrom(handle, outcomes, tally, tweets) ==
    IF tally = tally /\ tweets = <<>> THEN tally
    ELSE TallyFrom(handle, outcomes, TallyTweet(handle, outcomes, tally, Head(tweets)),
                   Tail(tweets))

\* the whole loop over a batch
TallyBatch(handle, outcomes, tweets) ==
    TallyFrom(handle, outcomes, [counts |-> InitialCounts(outcomes), total |-> 0], tweets)

(***************************************************************************)
(* The tail of _resolve_by_sentiment: breakdown, winner, record.           *)
(***************************************************************************)
\* (variant) the percentage is truncated instead of rounded
SupportPercentageTruncated(count, total) ==
    IF total > 0 THEN (count * 10000) \div total ELSE 0

\* round(count / total_analyzed * 100, 2), in hundredths of a percent
SupportPercentage(count, total) ==
    IF total > 0 THEN RoundHalfEven(count * 10000, total) ELSE 0

\* round(confidence_sum / count, 4), in units of 0.0001
AvgConfidence(confidence_sum, count) ==
    IF count > 0 THEN RoundHalfEven(confidence_sum * 100, count) ELSE 0

SentimentBreakdown(counts, total) ==
    [o \in DOMAIN counts |->
        [support_count |-> counts[o].count,
         support_percentage |-> SupportPercentage(counts[o].count, total),
         avg_confidence |-> AvgConfidence(counts[o].confidence_sum, counts[o].count)]]

\* a_sum / a_count > b_sum / b_count on exact quotients (counts > 0)
MeanGreater(a_sum, a_count, b_sum, b_count) == a_sum * b_count > b_sum * a_count

\* (variant) on a tie of counts the later outcome also wins with an equal mean
TrackWinnerLastOnTie(w, outcome, counts) ==
    LET count == counts[outcome].count
    IN  IF count > w.max_count
        THEN [max_count |-> count, winning_outcome |-> outcome]
        ELSE IF count = w.max_count /\ w.max_count > 0
                /\ ~MeanGreater(counts[w.winning_outcome].confidence_sum, w.max_count,
                                counts[outcome].confidence_sum, count)
        THEN [w EXCEPT !.winning_outcome = outcome]
        ELSE w

\* the body of "for outcome, data in outcome_counts.items()" for one outcome
TrackWinner(w, outcome, counts) ==
    LET count == counts[outcome].count
    IN  IF count > w.max_count
        THEN [max_count |-> count, winning_outcome |-> outcome]
        ELSE IF count = w.max_count /\ w.max_count > 0
                /\ MeanGreater(counts[outcome].confidence_sum, count,
                               counts[w.winning_outcome].confidence_sum, w.max_count)
        THEN [w EXCEPT !.winning_outcome = outcome]
        ELSE w

\* the rest of the loop over outcome_counts.items(), in the order of keys
RECURSIVE ScanFrom(_, _, _)
ScanFrom(w, keys, counts) ==
    IF w = w /\ keys = <<>> THEN w
    ELSE ScanFrom(TrackWinner(w, Head(keys), counts), Tail(keys), counts)

\* the loop over outcome_counts.items()
ScanWinner(keys, counts) ==
    ScanFrom([max_count |-> 0, winning_outcome |-> None], keys, counts)

NoTweetsMessage == "No valid tweets could be analyzed for sentiment"

InsufficientMessage == "Insufficient data for sentiment analysis"

\* (variant) the confidence is the winner's share of all reply_tweets
FinalizeOverAllReplies(md, counts, total) ==
    IF total = 0
    THEN CreateErrorResponse(md, NoTweetsMessage)
    ELSE LET w == ScanWinner(DictKeys(md.outcomes), counts)
         IN  IF w.max_count = 0
             THEN PendingResolution(md, "sentiment", InsufficientMessage)
             ELSE [market_id |-> md.market_id,
                   question |-> md.question,
                   outcomes |-> md.outcomes,
                   winning_outcome |-> w.winning_outcome,
                   winning_index |-> IndexOf(md.outcomes, w.winning_outcome) - 1,
                   confidence |-> RoundHalfEven(w.max_count * 10000,
                                                Len(Get(md, "reply_tweets", <<>>))),
                   resolution_method |-> "sentiment",
                   sentiment_breakdown |-> SentimentBreakdown(counts, total),
                   total_analyzed |-> total]

\* lines 111-166; a ValueError raised here is caught by resolve_market
Finalize(md, counts, total) ==
    IF total = 0
    THEN CreateErrorResponse(md, NoTweetsMessage)
    ELSE LET w == ScanWinner(DictKeys(md.outcomes), counts)
         IN  IF w.max_count = 0
             THEN PendingResolution(md, "sentiment", InsufficientMessage)
             ELSE [market_id |-> md.market_id,
                   question |-> md.question,
                   outcomes |-> md.outcomes,
                   winning_outcome |-> w.winning_outcome,
                   winning_index |-> IndexOf(md.outcomes, w.winning_outcome) - 1,
                   confidence |-> RoundHalfEven(w.max_count * 10000, total),
                   resolution_method |-> "sentiment",
                   sentiment_breakdown |-> SentimentBreakdown(counts, total),
                   total_analyzed |-> total]

(***************************************************************************)
(* classify_teams (team_classifier.py run as a script).  Its input is what *)
(* stdin holds: kind is "empty", "invalid_json", or the type of the parsed *)
(* JSON value; keys is the set of keys present when it is a dict.          *)
(* Percentages and average confidences are unrounded quotients, kept as    *)
(* fractions; the float tests on them (>= 0.5 of the share, >= 95.0) agree *)
(* with the exact ones for every count/total with total below 400.         *)
(***************************************************************************)
Frac(n, d) == [num |-> n, den |-> d]

FracGreater(a, b) == a.num * b.den > b.num * a.den

FracAtLeast(a, n) == a.num >= n * a.den

TwoTeams == <<"Pro", "Anti">>

ThreeTeams == <<"Pro", "Anti", "Neutral">>

TeamJudgments == { <<"Pro", 45>>, <<"Pro", 55>>, <<"Pro", 90>>, <<"Anti", 70>>,
                   <<"Neutral", 70>> }

TeamTweets == {Unscored("malformed"), Unscored("blank"), Unscored("raises")}
                  \cup {Scored(j[1], j[2]) : j \in TeamJudgments}

TeamsKeys == {"controversy", "teams", "tweets"}

TeamsInput(kind, keys, teams_is_list, teams, tweets_is_list, tweets) ==
    [kind |-> kind, keys |-> keys,
     controversy |-> "Bitcoin will hit $100k by end of 2025",
     teams_is_list |-> teams_is_list, teams |-> teams,
     tweets_is_list |-> tweets_is_list, tweets |-> tweets]

\* a tweets for the first team with varying scores, then b for the second and
\* c for the third
TeamBatch(a, b, c) ==
    [p \in 1..(a + b + c) |->
        IF p <= a THEN Scored("Pro", 50 + ((7 * p) % 50))
        ELSE IF p <= a + b THEN Scored("Anti", 70)
        ELSE Scored("Neutral", 65)]

\* counts around the 50% and 95% shares, and around the cap on supporters
ShareCounts ==
    { <<3, 2, 2>>, <<2, 2, 2>>, <<2, 2, 1>>, <<10, 10, 0>>,
      <<18, 1, 0>>, <<19, 1, 0>>, <<20, 1, 0>> }
    \cup { <<a, 1, 0>> : a \in (MaxSupporters - 3)..MaxSupporters }

TeamsInputs ==
    { TeamsInput("dict", TeamsKeys, TRUE, t, TRUE, w) :
        t \in {TwoTeams, ThreeTeams}, w \in BoundedSeq(TeamTweets, MaxTeamTweets) }
    \cup { TeamsInput("dict", TeamsKeys, TRUE, t, TRUE, TeamBatch(n[1], n[2], n[3])) :
        t \in {ThreeTeams, <<"Anti", "Pro", "Neutral">>}, n \in ShareCounts }
    \cup { TeamsInput("dict", TeamsKeys \ {k}, TRUE, TwoTeams, TRUE, <<Scored("Pro", 90)>>) :
        k \in TeamsKeys }
    \cup { TeamsInput("dict", TeamsKeys, l, t, TRUE, <<Scored("Pro", 90)>>) :
        l \in BOOLEAN, t \in {<<>>, <<"Pro">>} }
    \cup { TeamsInput("dict", TeamsKeys, TRUE, TwoTeams, FALSE, <<>>) }
    \cup { TeamsInput(k, {}, FALSE, <<>>, FALSE, <<>>) : k \in {"empty", "invalid_json", "list"} }

NoData == TeamsInput("empty", {}, FALSE, <<>>, FALSE, <<>>)

\* lines 103-122: the message of the ValueError raised on the input, or None
ValidateTeamsInput(d) ==
    IF d.kind = "empty" THEN "No input provided"
    ELSE IF d.kind = "invalid_json" THEN "Invalid JSON input"
    ELSE IF d.kind # "dict" \/ ~(TeamsKeys \subseteq d.keys)
    THEN "Invalid input format. Expected keys: controversy, teams, tweets"
    ELSE IF ~d.teams_is_list \/ Len(d.teams) < 2
    THEN "At least two team labels are required"
    ELSE IF ~d.tweets_is_list THEN "Tweets must be a list"
    ELSE None

\* lines 209-218: data is bound once json.loads has returned, and data.get
\* exists on a dict only
TeamsErrorResult(d, error_msg) ==
    IF d.kind \in {"empty", "invalid_json"}
    THEN [error |-> error_msg, controversy |-> "Unknown", winning_team |-> "Error",
          team_stats |-> <<>>, total_classified |-> 0, unclassified_count |-> 0]
    ELSE IF d.kind = "dict"
    THEN [error |-> error_msg,
          controversy |-> IF "controversy" \in d.keys THEN d.controversy ELSE "",
          winning_team |-> "Error",
          team_stats |-> <<>>, total_classified |-> 0, unclassified_count |-> 0]
    ELSE Raised("AttributeError")

\* lines 129-135
InitialTeamStats(team_labels) ==
    [t \in Range(team_labels) |->
        [count |-> 0, percentage |-> Frac(0, 1), avg_confidence |-> Frac(0, 1),
         confidence_sum |-> 0, supporters |-> <<>>]]

\* the supporter entry of the tweet at position pos (its id, author and text)
Supporter(pos, confidence) == [tweet |-> pos, confidence |-> confidence]

\* line 155: "if team and team in team_stats"
CountsForTeam(j, stats) == j.team # None /\ j.team \in DOMAIN stats

\* lines 141-165 for one tweet; tally is [stats, unclassified]
ClassifyInto(tally, tweet, pos, team_labels) ==
    IF ~WellFormed(tweet) THEN tally
    ELSE LET j == ClassifyTweet("loaded", tweet, team_labels)
         IN  IF CountsForTeam(j, tally.stats)
             THEN [tally EXCEPT !.stats[j.team] =
                      [@ EXCEPT !.count = @ + 1,
                                !.confidence_sum = @ + j.confidence,
                                !.supporters = Append(@, Supporter(pos, j.confidence))]]
             ELSE [tally EXCEPT !.unclassified = @ + 1]

\* lines 174-178
Percentage(count, total) == Frac(count * 100, total)

AverageConfidence(confidence_sum, count) ==
    IF count > 0 THEN Frac(confidence_sum, count) ELSE Frac(0, 1)

WithStatistics(stats, total) ==
    [t \in DOMAIN stats |->
        [stats[t] EXCEPT !.percentage = Percentage(stats[t].count, total),
                         !.avg_confidence =
                             AverageConfidence(stats[t].confidence_sum, stats[t].count)]]

\* (variant) a team needs more than half of the classified tweets
TrackWinningTeamAboveHalf(w, team, stats, total) ==
    LET pct == Percentage(stats[team].count, total)
    IN  IF /\ pct.num > 50 * pct.den
           /\ (w = None \/ FracGreater(pct, Percentage(stats[w].count, total)))
        THEN team ELSE w

\* lines 180-183 for one team
TrackWinningTeam(w, team, stats, total) ==
    LET pct == Percentage(stats[team].count, total)
    IN  IF /\ FracAtLeast(pct, 50)
           /\ (w = None \/ FracGreater(pct, Percentage(stats[w].count, total)))
        THEN team ELSE w

\* the rest of the loop over team_stats.items(), in the order of keys
RECURSIVE WinningTeamFrom(_, _, _, _)
WinningTeamFrom(w, keys, stats, total) ==
    IF w = w /\ keys = <<>> THEN w
    ELSE WinningTeamFrom(TrackWinningTeam(w, Head(keys), stats, total), Tail(keys),
                         stats, total)

\* (variant) dominance needs more than 95%
DominanceAbove(w, stats) ==
    w # None /\ stats[w].percentage.num > DominancePercentage * stats[w].percentage.den

\* line 186
Dominance(w, stats) ==
    w # None /\ FracAtLeast(stats[w].percentage, DominancePercentage)

\* list.sort(key=confidence, reverse=True) is stable: an entry goes behind the
\* entries of at least its confidence that came before it
InsertByConfidence(sorted, x) ==
    LET n == Cardinality({k \in 1..Len(sorted) : sorted[k].confidence >= x.confidence})
    IN  SubSeq(sorted, 1, n) \o <<x>> \o SubSeq(sorted, n + 1, Len(sorted))

RECURSIVE SortFrom(_, _)
SortFrom(sorted, s) ==
    IF sorted = sorted /\ s = <<>> THEN sorted
    ELSE SortFrom(InsertByConfidence(sorted, Head(s)), Tail(s))

SortByConfidence(s) == SortFrom(<<>>, s)

\* (variant) the list is cut before it is sorted
TopSupportersCutFirst(supporters) ==
    SortByConfidence(SubSeq(supporters, 1,
        IF Len(supporters) < SupportersKept THEN Len(supporters) ELSE SupportersKept))

\* lines 192-194
TopSupporters(supporters) ==
    LET sorted == SortByConfidence(supporters)
    IN  SubSeq(sorted, 1, IF Len(sorted) < SupportersKept THEN Len(sorted) ELSE SupportersKept)

\* lines 190-196
CleanedStats(stats) ==
    [t \in DOMAIN stats |->
        [count |-> stats[t].count,
         percentage |-> stats[t].percentage,
         avg_confidence |-> stats[t].avg_confidence,
         supporters |-> TopSupporters(stats[t].supporters)]]

\* lines 199-205
TeamsResult(d, w, stats, total, unclassified) ==
    [controversy |-> d.controversy,
     winning_team |-> IF w # None THEN w ELSE "Undecided",
     team_stats |-> stats,
     total_classified |-> total,
     unclassified_count |-> unclassified]

(***************************************************************************)
(* analyze_sentiment_hf (sentiment_hf.py run as a script).  Its input is   *)
(* what stdin holds: kind is "empty", "invalid_json", or the type of the   *)
(* parsed JSON value; items are the elements when it is a list.  A scored  *)
(* tweet carries the label and score that the FinBERT pipeline answers for *)
(* its text.  Polarities are -1, 0, 1; their products with a score and the *)
(* sums of those are hundredths.                                           *)
(***************************************************************************)
HfTweets == {Unscored("malformed"), Unscored("blank"), Unscored("raises"),
             Scored("positive", 90), Scored("positive", 20), Scored("negative", 80),
             Scored("neutral", 70)}

HfInput(kind, items) == [kind |-> kind, items |-> items]

HfInputs ==
    { HfInput("list", t) : t \in BoundedSeq(HfTweets, MaxHfTweets) }
    \cup { HfInput(k, <<>>) : k \in {"empty", "invalid_json", "dict"} }

NoTweets == HfInput("empty", <<>>)

\* lines 157-167: the message of the ValueError raised on the input, or None
ValidateHfInput(input) ==
    IF input.kind = "empty" THEN "No input provided"
    ELSE IF input.kind = "invalid_json" THEN "Invalid JSON input"
    ELSE IF input.kind # "list" THEN "Input must be a JSON array of tweets"
    ELSE None

\* lines 97-102
Polarity(sentiment) ==
    IF sentiment = "positive" THEN 1 ELSE IF sentiment = "negative" THEN -1 ELSE 0

\* lines 123-128 and 213-218 on total / sample_size against 0.3 and -0.3
OutcomeOf(total, sample_size) ==
    IF total > 30 * sample_size THEN "POSITIVE"
    ELSE IF total < -30 * sample_size THEN "NEGATIVE"
    ELSE "NEUTRAL"

\* SentimentAnalyzer.predict_sentiment on a non-blank text, with the model
\* loaded: the summary of lines 131-137, or the dict of lines 142-146 when
\* the pipeline raises
PredictSentiment(tweet) ==
    IF tweet.kind = "raises"
    THEN [sentiment |-> "neutral", confidence |-> 0, polarity |-> 0]
    ELSE [outcome |-> OutcomeOf(Polarity(tweet.label) * tweet.score, 1),
          avg_polarity |-> Polarity(tweet.label) * tweet.score,
          avg_confidence |-> tweet.score,
          sample_size |-> 1,
          detailed_sentiments |-> <<[sentiment |-> tweet.label,
                                     confidence |-> tweet.score,
                                     polarity |-> Polarity(tweet.label)]>>]

\* lines 229-238
HfErrorResult(error_msg) ==
    [error |-> error_msg, outcome |-> "ERROR", avg_polarity |-> Frac(0, 1),
     avg_confidence |-> Frac(0, 1), sample_size |-> 0, detailed_sentiments |-> <<>>]

\* lines 204-227; a ValueError raised here is caught at line 229
HfSummary(res, polarity_sum, confidence_sum) ==
    IF Len(res) = 0
    THEN HfErrorResult("No valid tweets to analyze")
    ELSE [outcome |-> OutcomeOf(polarity_sum, Len(res)),
          avg_polarity |-> Frac(polarity_sum, Len(res)),
          avg_confidence |-> Frac(confidence_sum, Len(res)),
          sample_size |-> Len(res),
          detailed_sentiments |-> res]

(***************************************************************************)
(* The state machine.                                                      *)
(***************************************************************************)
NoCounts == [o \in {} |-> 0]

\* analyze_sentiment_hf is not running: it belongs to another process
HfIdle ==
    /\ hf_pc = "idle"
    /\ hf_tweets = NoTweets
    /\ analyzer = None
    /\ hf_idx = 0
    /\ results = <<>>
    /\ total_polarity = 0
    /\ total_confidence = 0
    /\ hf_result = NoResult

\* classify_teams is not running: it belongs to another process
TeamsIdle ==
    /\ teams_pc = "idle"
    /\ data = NoData
    /\ tweet_idx = 0
    /\ team_stats = NoCounts
    /\ unclassified_count = 0
    /\ total_classified = 0
    /\ winning_team = None
    /\ log = <<>>
    /\ teams_result = NoResult

Init ==
    /\ sentiment_analyzer = None
    /\ team_classifier = None
    /\ pc = "idle"
    /\ market_data = NoMarket
    /\ idx = 0
    /\ outcome_counts = NoCounts
    /\ total_analyzed = 0
    /\ classify_calls = <<>>
    /\ model_calls = <<>>
    /\ result = NoResult
    /\ TeamsIdle
    /\ HfIdle

\* the caller invokes resolver.resolve_market(md)
Call(md) ==
    /\ pc = "idle"
    /\ pc' = "validating"
    /\ market_data' = md
    /\ UNCHANGED <<sentiment_analyzer, team_classifier, idx, outcome_counts,
                   total_analyzed, classify_calls, model_calls, result>>
    /\ UNCHANGED teamsVars
    /\ UNCHANGED hfVars

\* line 61, and the except clause when validation raises
Validate ==
    /\ pc = "validating"
    /\ LET msg == ValidateMarketData(market_data)
       IN  IF msg = None
           THEN pc' = "dispatching" /\ result' = result
           ELSE pc' = "done" /\ result' = CreateErrorResponse(market_data, msg)
    /\ UNCHANGED <<sentiment_analyzer, team_classifier, market_data, idx,
                   outcome_counts, total_analyzed, classify_calls, model_calls>>
    /\ UNCHANGED teamsVars
    /\ UNCHANGED hfVars

\* lines 64-74
Dispatch ==
    /\ pc = "dispatching"
    /\ LET resolution_method == Lower(Get(market_data, "resolution_method", "sentiment"))
       IN  CASE resolution_method = "sentiment" ->
                    pc' = "initializing" /\ result' = result
             [] resolution_method = "oracle" ->
                    /\ pc' = "done"
                    /\ result' = PendingResolution(market_data, "oracle",
                                                    DispatchMessage("oracle"))
             [] resolution_method = "manual" ->
                    /\ pc' = "done"
                    /\ result' = PendingResolution(market_data, "manual",
                                                    DispatchMessage("manual"))
             [] OTHER ->
                    /\ pc' = "done"
                    /\ result' = CreateErrorResponse(market_data,
                           "Unsupported resolution method: " \o resolution_method)
    /\ UNCHANGED <<sentiment_analyzer, team_classifier, market_data, idx,
                   outcome_counts, total_analyzed, classify_calls, model_calls>>
    /\ UNCHANGED teamsVars
    /\ UNCHANGED hfVars

\* (variant) the handles are constructed and loaded in every sentiment call
InitializeModelsEveryCall(sa_load_ok, tc_ctor_ok, tc_load_ok) ==
    /\ pc = "initializing"
    /\ LET sa_fails == ~sa_load_ok
           tc_ctor_fails == ~sa_fails /\ ~tc_ctor_ok
           tc_load_fails == ~sa_fails /\ tc_ctor_ok /\ ~tc_load_ok
       IN  /\ sentiment_analyzer' = IF sa_load_ok THEN "loaded" ELSE "constructed"
           /\ team_classifier' =
                  IF sa_fails \/ tc_ctor_fails THEN team_classifier
                  ELSE IF tc_load_ok THEN "loaded" ELSE "constructed"
           /\ IF sa_fails \/ tc_ctor_fails \/ tc_load_fails
              THEN /\ pc' = "done"
                   /\ result' = CreateErrorResponse(market_data,
                          IF sa_fails THEN "FinBERT model could not be loaded"
                          ELSE IF tc_ctor_fails THEN "name 'torch' is not defined"
                          ELSE "zero-shot model could not be loaded")
                   /\ UNCHANGED <<outcome_counts, total_analyzed>>
              ELSE /\ pc' = "classifying"
                   /\ result' = result
                   /\ outcome_counts' = InitialCounts(market_data.outcomes)
                   /\ total_analyzed' = 0
    /\ idx' = 0
    /\ UNCHANGED <<market_data, classify_calls, model_calls>>
    /\ UNCHANGED teamsVars
    /\ UNCHANGED hfVars

(***************************************************************************)
(* initialize_models followed by lines 85-87.  The environment decides    *)
(* whether SentimentAnalyzerHF.load_model succeeds, whether TeamClassifier()*)
(* can be constructed (its __init__ reads the module global torch, which   *)
(* team_classifier.py binds only when run as a script) and whether         *)
(* TeamClassifier.load_model succeeds.  The handle is assigned before      *)
(* load_model is called, so a failed load leaves a constructed handle.     *)
(***************************************************************************)
InitializeModels(sa_load_ok, tc_ctor_ok, tc_load_ok) ==
    /\ pc = "initializing"
    /\ LET sa_fails == sentiment_analyzer = None /\ ~sa_load_ok
           tc_ctor_fails == ~sa_fails /\ team_classifier = None /\ ~tc_ctor_ok
           tc_load_fails == ~sa_fails /\ team_classifier = None /\ tc_ctor_ok /\ ~tc_load_ok
       IN  /\ sentiment_analyzer' =
                  IF sentiment_analyzer # None THEN sentiment_analyzer
                  ELSE IF sa_load_ok THEN "loaded" ELSE "constructed"
           /\ team_classifier' =
                  IF team_classifier # None \/ sa_fails \/ tc_ctor_fails THEN team_classifier
                  ELSE IF tc_load_ok THEN "loaded" ELSE "constructed"
           /\ IF sa_fails \/ tc_ctor_fails \/ tc_load_fails
              THEN /\ pc' = "done"
                   /\ result' = CreateErrorResponse(market_data,
                          IF sa_fails THEN "FinBERT model could not be loaded"
                          ELSE IF tc_ctor_fails THEN "name 'torch' is not defined"
                          ELSE "zero-shot model could not be loaded")
                   /\ UNCHANGED <<outcome_counts, total_analyzed>>
              ELSE /\ pc' = "classifying"
                   /\ result' = result
                   /\ outcome_counts' = InitialCounts(market_data.outcomes)
                   /\ total_analyzed' = 0
    /\ idx' = 0
    /\ UNCHANGED <<market_data, classify_calls, model_calls>>
    /\ UNCHANGED teamsVars
    /\ UNCHANGED hfVars

ReplyTweets == Get(market_data, "reply_tweets", <<>>)

\* one iteration of the loop over reply_tweets (lines 90-109)
ProcessTweet ==
    /\ pc = "classifying"
    /\ idx < Len(ReplyTweets)
    /\ LET tweet == ReplyTweets[idx + 1]
           j == ClassifyTweet(team_classifier, tweet, market_data.outcomes)
           tally == TallyTweet(team_classifier, market_data.outcomes,
                               [counts |-> outcome_counts, total |-> total_analyzed], tweet)
       IN  /\ outcome_counts' = tally.counts
           /\ total_analyzed' = tally.total
           /\ classify_calls' = IF WellFormed(tweet)
                                THEN Append(classify_calls, idx + 1) ELSE classify_calls
           /\ model_calls' = IF WellFormed(tweet) /\ j.model
                             THEN Append(model_calls, idx + 1) ELSE model_calls
    /\ idx' = idx + 1
    /\ UNCHANGED <<sentiment_analyzer, team_classifier, pc, market_data, result>>
    /\ UNCHANGED teamsVars
    /\ UNCHANGED hfVars

\* the loop is exhausted
EndLoop ==
    /\ pc = "classifying"
    /\ idx = Len(ReplyTweets)
    /\ pc' = "aggregating"
    /\ UNCHANGED <<sentiment_analyzer, team_classifier, market_data, idx,
                   outcome_counts, total_analyzed, classify_calls, model_calls, result>>
    /\ UNCHANGED teamsVars
    /\ UNCHANGED hfVars

\* lines 111-166
Aggregate ==
    /\ pc = "aggregating"
    /\ result' = Finalize(market_data, outcome_counts, total_analyzed)
    /\ pc' = "done"
    /\ UNCHANGED <<sentiment_analyzer, team_classifier, market_data, idx,
                   outcome_counts, total_analyzed, classify_calls, model_calls>>
    /\ UNCHANGED teamsVars
    /\ UNCHANGED hfVars

\* the record (or the exception) reaches the caller; the locals are discarded
Return ==
    /\ pc = "done"
    /\ pc' = "idle"
    /\ market_data' = NoMarket
    /\ idx' = 0
    /\ outcome_counts' = NoCounts
    /\ total_analyzed' = 0
    /\ classify_calls' = <<>>
    /\ model_calls' = <<>>
    /\ result' = NoResult
    /\ UNCHANGED <<sentiment_analyzer, team_classifier>>
    /\ UNCHANGED teamsVars
    /\ UNCHANGED hfVars

Next ==
    \/ \E md \in MarketData : Call(md)
    \/ Validate
    \/ Dispatch
    \/ \E sa_load_ok, tc_ctor_ok, tc_load_ok \in BOOLEAN :
           InitializeModels(sa_load_ok, tc_ctor_ok, tc_load_ok)
    \/ ProcessTweet
    \/ EndLoop
    \/ Aggregate
    \/ Return

Spec == Init /\ [][Next]_vars

(***************************************************************************)
(* Wide markets: the state in which the loop of _resolve_by_sentiment has  *)
(* just ended, for markets of up to MaxWideOutcomes outcomes "1", "2", ... *)
(* whose first k outcomes were each supported by a accepted tweets and the *)
(* others by b accepted tweets.                                            *)
(***************************************************************************)
WideOutcomes(n) == [i \in 1..n |-> ToString(i)]

WideTweets(n, k, a, b) ==
    [p \in 1..(k * a + (n - k) * b) |->
        Scored(ToString(IF p <= k * a THEN (p - 1) \div a + 1
                                      ELSE k + (p - k * a - 1) \div b + 1),
               IF p % 2 = 1 THEN 85 ELSE 60)]

WideMarkets ==
    { Market("dict", AllFields, TRUE, WideOutcomes(n), "sentiment", WideTweets(n, k, a, b)) :
        n \in 2..MaxWideOutcomes, k \in {0, 1, 2}, a \in 0..MaxWideCount, b \in 0..MaxWideCount }

InitWide ==
    /\ sentiment_analyzer = "loaded"
    /\ team_classifier = "loaded"
    /\ pc = "aggregating"
    /\ market_data \in WideMarkets
    /\ idx = Len(market_data.reply_tweets)
    /\ LET tally == TallyBatch("loaded", market_data.outcomes, market_data.reply_tweets)
       IN  outcome_counts = tally.counts /\ total_analyzed = tally.total
    /\ classify_calls = [k \in 1..idx |-> k]
    /\ model_calls = [k \in 1..idx |-> k]
    /\ result = NoResult
    /\ TeamsIdle
    /\ HfIdle

NextWide == Aggregate \/ Return

SpecWide == InitWide /\ [][NextWide]_vars

(***************************************************************************)
(* The classify_teams process: one run of team_classifier.py on an input.  *)
(***************************************************************************)
InitTeams ==
    /\ sentiment_analyzer = None
    /\ team_classifier = None
    /\ pc = "idle"
    /\ market_data = NoMarket
    /\ idx = 0
    /\ outcome_counts = NoCounts
    /\ total_analyzed = 0
    /\ classify_calls = <<>>
    /\ model_calls = <<>>
    /\ result = NoResult
    /\ teams_pc = "start"
    /\ data \in TeamsInputs
    /\ tweet_idx = 0
    /\ team_stats = NoCounts
    /\ unclassified_count = 0
    /\ total_classified = 0
    /\ winning_team = None
    /\ log = <<>>
    /\ teams_result = NoResult
    /\ HfIdle

\* lines 101-137: the input is read and checked, the classifier is constructed
\* and loaded (load_ok is the environment's answer), the statistics are set up
ReadInput(load_ok) ==
    /\ teams_pc = "start"
    /\ LET msg == ValidateTeamsInput(data)
       IN  IF msg # None \/ ~load_ok
           THEN /\ teams_pc' = "done"
                /\ teams_result' = TeamsErrorResult(data,
                       IF msg # None THEN msg ELSE "zero-shot model could not be loaded")
                /\ team_stats' = team_stats
           ELSE /\ teams_pc' = "loop"
                /\ teams_result' = teams_result
                /\ team_stats' = InitialTeamStats(data.teams)
    /\ UNCHANGED <<data, tweet_idx, unclassified_count, total_classified, winning_team, log>>
    /\ UNCHANGED resolverVars
    /\ UNCHANGED hfVars

\* one iteration of the loop over tweets (lines 140-165)
ClassifyNext ==
    /\ teams_pc = "loop"
    /\ tweet_idx < Len(data.tweets)
    /\ LET tally == ClassifyInto([stats |-> team_stats, unclassified |-> unclassified_count],
                                 data.tweets[tweet_idx + 1], tweet_idx + 1, data.teams)
       IN  /\ team_stats' = tally.stats
           /\ unclassified_count' = tally.unclassified
    /\ tweet_idx' = tweet_idx + 1
    /\ UNCHANGED <<teams_pc, data, total_classified, winning_team, log, teams_result>>
    /\ UNCHANGED resolverVars
    /\ UNCHANGED hfVars

\* lines 167-183, once the loop is exhausted
Statistics ==
    /\ teams_pc = "loop"
    /\ tweet_idx = Len(data.tweets)
    /\ LET total == SumSeq([k \in 1..Len(DictKeys(data.teams)) |->
                               team_stats[DictKeys(data.teams)[k]].count])
       IN  /\ total_classified' = total
           /\ IF total > 0
              THEN /\ team_stats' = WithStatistics(team_stats, total)
                   /\ winning_team' = WinningTeamFrom(None, DictKeys(data.teams),
                                                      team_stats, total)
              ELSE UNCHANGED <<team_stats, winning_team>>
    /\ teams_pc' = "dominance"
    /\ UNCHANGED <<data, tweet_idx, unclassified_count, log, teams_result>>
    /\ UNCHANGED resolverVars
    /\ UNCHANGED hfVars

\* lines 185-187
CheckDominance ==
    /\ teams_pc = "dominance"
    /\ log' = IF total_classified > 0 /\ Dominance(winning_team, team_stats)
              THEN Append(log, "Single team dominance detected: " \o winning_team)
              ELSE log
    /\ teams_pc' = "cleanup"
    /\ UNCHANGED <<data, tweet_idx, team_stats, unclassified_count, total_classified,
                   winning_team, teams_result>>
    /\ UNCHANGED resolverVars
    /\ UNCHANGED hfVars

\* lines 189-207
CleanUp ==
    /\ teams_pc = "cleanup"
    /\ team_stats' = CleanedStats(team_stats)
    /\ teams_result' = TeamsResult(data, winning_team, team_stats', total_classified,
                                   unclassified_count)
    /\ teams_pc' = "done"
    /\ UNCHANGED <<data, tweet_idx, unclassified_count, total_classified, winning_team, log>>
    /\ UNCHANGED resolverVars
    /\ UNCHANGED hfVars

NextTeams ==
    \/ \E load_ok \in BOOLEAN : ReadInput(load_ok)
    \/ ClassifyNext
    \/ Statistics
    \/ CheckDominance
    \/ CleanUp

SpecTeams == InitTeams /\ [][NextTeams]_vars

(***************************************************************************)
(* The analyze_sentiment_hf process: one run of sentiment_hf.py.           *)
(***************************************************************************)
InitHf ==
    /\ sentiment_analyzer = None
    /\ team_classifier = None
    /\ pc = "idle"
    /\ market_data = NoMarket
    /\ idx = 0
    /\ outcome_counts = NoCounts
    /\ total_analyzed = 0
    /\ classify_calls = <<>>
    /\ model_calls = <<>>
    /\ result = NoResult
    /\ TeamsIdle
    /\ hf_pc = "start"
    /\ hf_tweets \in HfInputs
    /\ analyzer = None
    /\ hf_idx = 0
    /\ results = <<>>
    /\ total_polarity = 0
    /\ total_confidence = 0
    /\ hf_result = NoResult

\* lines 155-176: the input is read and checked, the analyzer is constructed
\* and loaded (load_ok is the environment's answer)
ReadTweets(load_ok) ==
    /\ hf_pc = "start"
    /\ LET msg == ValidateHfInput(hf_tweets)
       IN  IF msg # None
           THEN /\ analyzer' = analyzer
                /\ hf_pc' = "done"
                /\ hf_result' = HfErrorResult(msg)
           ELSE IF ~load_ok
           THEN /\ analyzer' = "constructed"
                /\ hf_pc' = "done"
                /\ hf_result' = HfErrorResult("FinBERT model could not be loaded")
           ELSE /\ analyzer' = "loaded"
                /\ hf_pc' = "loop"
                /\ hf_result' = hf_result
    /\ UNCHANGED <<hf_tweets, hf_idx, results, total_polarity, total_confidence>>
    /\ UNCHANGED resolverVars
    /\ UNCHANGED teamsVars

\* one iteration of the loop over tweets (lines 178-202); the prediction is
\* appended before its "polarity" and "confidence" entries are read, and a
\* KeyError is caught at line 229
AnalyzeNext ==
    /\ hf_pc = "loop"
    /\ hf_idx < Len(hf_tweets.items)
    /\ LET tweet == hf_tweets.items[hf_idx + 1]
       IN  IF ~WellFormed(tweet) \/ tweet.kind = "blank"
           THEN UNCHANGED <<hf_pc, results, total_polarity, total_confidence, hf_result>>
           ELSE LET sentiment_result == PredictSentiment(tweet)
                IN  /\ results' = Append(results, [tweet |-> hf_idx + 1,
                                                   prediction |-> sentiment_result])
                    /\ IF "polarity" \in DOMAIN sentiment_result
                       THEN /\ total_polarity' = total_polarity + sentiment_result.polarity
                            /\ total_confidence' =
                                   total_confidence + sentiment_result.confidence
                            /\ UNCHANGED <<hf_pc, hf_result>>
                       ELSE /\ hf_pc' = "done"
                            /\ hf_result' = HfErrorResult("'polarity'")
                            /\ UNCHANGED <<total_polarity, total_confidence>>
    /\ hf_idx' = hf_idx + 1
    /\ UNCHANGED <<hf_tweets, analyzer>>
    /\ UNCHANGED resolverVars
    /\ UNCHANGED teamsVars

\* lines 204-238, once the loop is exhausted
Summarize ==
    /\ hf_pc = "loop"
    /\ hf_idx = Len(hf_tweets.items)
    /\ hf_result' = HfSummary(results, total_polarity, total_confidence)
    /\ hf_pc' = "done"
    /\ UNCHANGED <<hf_tweets, analyzer, hf_idx, results, total_polarity, total_confidence>>
    /\ UNCHANGED resolverVars
    /\ UNCHANGED teamsVars

NextHf ==
    \/ \E load_ok \in BOOLEAN : ReadTweets(load_ok)
    \/ AnalyzeNext
    \/ Summarize

SpecHf == InitHf /\ [][NextHf]_vars

(***************************************************************************)
(* Properties.                                                             *)
(***************************************************************************)
Valid(md) == md.kind = "dict" /\ ValidateMarketData(md) = None

Method(md) == Lower(md.resolution_method)

\* the call went through initialize_models and reached the loop
LoopReached == outcome_counts # NoCounts

\* C1: resolve_market is total: whatever value is passed as market_data, the
\* call ends with a record of the decided, pending or error shape and no
\* exception leaves it.
ResolveMarketTotal ==
    pc = "done" => IsDecided(result) \/ IsPending(result) \/ IsError(result)

\* a reply item that the pending law counts as giving no evidence: blank, or
\* judged with no label, or judged with confidence below 0.6
NoEvidence(tweet) ==
    \/ tweet.kind = "blank"
    \/ tweet.kind = "scored" /\ tweet.score < ResolverMinConfidence

\* C2: pending law: a valid sentiment market none of whose reply items is
\* accepted (including an empty reply_tweets list) ends in the pending record
\* with message 'Insufficient data for sentiment analysis', not in an error.
PendingLaw ==
    ( /\ pc = "done"
      /\ Valid(market_data)
      /\ Method(market_data) = "sentiment"
      /\ team_classifier = "loaded"
      /\ LoopReached
      /\ \A k \in 1..Len(ReplyTweets) : NoEvidence(ReplyTweets[k]) )
    => /\ IsPending(result)
       /\ result.winning_outcome = None
       /\ result.winning_index = -1
       /\ result.confidence = 0
       /\ result.message = InsufficientMessage

\* the confidence of the judgment of a reply item, when it has one
JudgedBelowThreshold(tweet) ==
    tweet.kind = "scored" /\ tweet.score < ResolverMinConfidence

\* C3: threshold law: an iteration of the sentiment loop over an item judged
\* with confidence below 0.6 leaves every count, every confidence_sum and
\* total_analyzed as they were; an iteration that changes them is over an item
\* judged with confidence >= 0.6 and a label among the outcomes, and adds one
\* to that outcome's count and to total_analyzed and the confidence to its sum.
ThresholdLaw ==
    [][ (pc = "classifying" /\ idx' = idx + 1) =>
          LET tweet == ReplyTweets[idx + 1]
          IN  /\ JudgedBelowThreshold(tweet) =>
                    outcome_counts' = outcome_counts /\ total_analyzed' = total_analyzed
              /\ (outcome_counts' # outcome_counts \/ total_analyzed' # total_analyzed) =>
                    /\ tweet.kind = "scored"
                    /\ tweet.score >= ResolverMinConfidence
                    /\ tweet.label \in Range(market_data.outcomes)
                    /\ total_analyzed' = total_analyzed + 1
                    /\ outcome_counts' =
                          [outcome_counts EXCEPT ![tweet.label] =
                              [count |-> @.count + 1,
                               confidence_sum |-> @.confidence_sum + tweet.score]] ]_vars

\* a labelled judgment between the two thresholds was passed over, and another
\* item was accepted
ThresholdLawWitness ==
    /\ pc = "classifying"
    /\ total_analyzed > 0
    /\ \E k \in 1..idx :
          /\ ReplyTweets[k].kind = "scored"
          /\ ReplyTweets[k].score >= ClassifierMinConfidence
          /\ ReplyTweets[k].score < ResolverMinConfidence
          /\ outcome_counts[ReplyTweets[k].label].count = 0

\* o1 comes before o2 in the ordering (count descending, mean confidence
\* descending, declared index ascending), on the exact tallies
Count(o) == outcome_counts[o].count

ConfidenceSum(o) == outcome_counts[o].confidence_sum

RanksBefore(o1, o2) ==
    \/ Count(o1) > Count(o2)
    \/ /\ Count(o1) = Count(o2)
       /\ \/ ConfidenceSum(o1) * Count(o2) > ConfidenceSum(o2) * Count(o1)
          \/ /\ ConfidenceSum(o1) * Count(o2) = ConfidenceSum(o2) * Count(o1)
             /\ IndexOf(market_data.outcomes, o1) < IndexOf(market_data.outcomes, o2)

\* C4: winner selection with tie-break: in a decided record of sentiment
\* resolution the winning outcome comes first in the ordering (count
\* descending, mean confidence descending, declared index ascending).
WinnerSelection ==
    (pc = "done" /\ IsDecided(result)) =>
        /\ result.winning_outcome \in DOMAIN outcome_counts
        /\ \A o \in DOMAIN outcome_counts \ {result.winning_outcome} :
              RanksBefore(result.winning_outcome, o)

\* the winner is tied on count with an earlier outcome of lower mean and with a
\* later outcome of equal mean
WinnerSelectionWitness ==
    /\ pc = "done"
    /\ IsDecided(result)
    /\ LET w == result.winning_outcome
       IN  /\ \E o \in DOMAIN outcome_counts :
                 /\ Count(o) = Count(w)
                 /\ ConfidenceSum(o) < ConfidenceSum(w)
                 /\ IndexOf(market_data.outcomes, o) < IndexOf(market_data.outcomes, w)
           /\ \E o \in DOMAIN outcome_counts :
                 /\ Count(o) = Count(w)
                 /\ ConfidenceSum(o) = ConfidenceSum(w)
                 /\ IndexOf(market_data.outcomes, o) > IndexOf(market_data.outcomes, w)

Permute(s, p) == [k \in 1..Len(s) |-> s[p[k]]]

\* the record of sentiment resolution of the current market over another batch
RecordOver(tweets) ==
    LET tally == TallyBatch(team_classifier, market_data.outcomes, tweets)
    IN  Finalize(market_data, tally.counts, tally.total)

\* C5: order independence: the record of a sentiment resolution (its kind,
\* winner, index, confidence, total_analyzed and breakdown) is the one that
\* every permutation of reply_tweets yields.
OrderIndependence ==
    (pc = "done" /\ LoopReached) =>
        \A p \in Permutations(1..Len(ReplyTweets)) :
            RecordOver(Permute(ReplyTweets, p)) = result

\* a decided record over three different items, two of them accepted for the
\* same outcome with different confidences
OrderIndependenceWitness ==
    /\ pc = "done"
    /\ IsDecided(result)
    /\ Len(ReplyTweets) = 3
    /\ Cardinality(Range(ReplyTweets)) = 3
    /\ \E o \in DOMAIN outcome_counts :
          Count(o) = 2 /\ ConfidenceSum(o) % 2 = 1

\* what the claim's conditions of rejection say of a mapping
Rejected(md) ==
    \/ ~(Range(RequiredFields) \subseteq md.fields)
    \/ ~md.outcomes_is_list
    \/ Len(md.outcomes) < 2
    \/ Lower(md.resolution_method) \notin {"sentiment", "oracle", "manual"}

HasRepeatedLabel(outcomes) ==
    \E a, b \in 1..Len(outcomes) : a # b /\ outcomes[a] = outcomes[b]

\* C7: outcome uniqueness is enforced: a market whose outcomes list repeats a
\* label ends in an error record and is never tallied.
OutcomeUniqueness ==
    ( /\ pc = "done"
      /\ market_data.kind = "dict"
      /\ market_data.outcomes_is_list
      /\ HasRepeatedLabel(market_data.outcomes) )
    => /\ IsError(result)
       /\ classify_calls = <<>>
       /\ total_analyzed = 0

\* C8: oracle/manual dispatch: a valid market whose method is 'oracle' or
\* 'manual' in any letter case ends in the pending record, whatever
\* reply_tweets holds, with no item classified, and the message of an oracle
\* record is not the message of a manual record.
OracleManualDispatch ==
    ( /\ pc = "done"
      /\ Valid(market_data)
      /\ Method(market_data) \in {"oracle", "manual"} )
    => /\ IsPending(result)
       /\ result.winning_outcome = None
       /\ result.winning_index = -1
       /\ result.confidence = 0
       /\ classify_calls = <<>>
       /\ ~LoopReached
       /\ result.message #
              DispatchMessage(IF Method(market_data) = "oracle" THEN "manual" ELSE "oracle")

\* an item whose classification fails, or that is malformed
FailingItem(tweet) ==
    \/ tweet.kind \in {"malformed", "raises"}
    \/ team_classifier # "loaded"

RemoveAt(s, k) == [j \in 1..(Len(s) - 1) |-> IF j < k THEN s[j] ELSE s[j + 1]]

\* C9: partial-failure tolerance: in sentiment resolution every well-formed
\* item is classified, whichever items fail, and the record is the one that the
\* batch yields with any one failing (or malformed) item removed.
PartialFailureTolerance ==
    (pc = "done" /\ LoopReached) =>
        /\ classify_calls = SelectSeq([k \in 1..Len(ReplyTweets) |-> k],
                                      LAMBDA k : WellFormed(ReplyTweets[k]))
        /\ \A k \in 1..Len(ReplyTweets) :
              FailingItem(ReplyTweets[k]) => RecordOver(RemoveAt(ReplyTweets, k)) = result

\* a decided record over a batch that holds a raising item and a malformed
\* item before an accepted one
PartialFailureToleranceWitness ==
    /\ pc = "done"
    /\ IsDecided(result)
    /\ team_classifier = "loaded"
    /\ Len(ReplyTweets) = 3
    /\ ReplyTweets[1].kind = "raises"
    /\ ReplyTweets[2].kind = "malformed"
    /\ result.total_analyzed = 1

Abs(x) == IF x < 0 THEN -x ELSE x

BreakdownKeys == DictKeys(market_data.outcomes)

\* the sum of the support_percentage values of a breakdown, in hundredths
PercentageSum(breakdown) ==
    SumSeq([k \in 1..Len(BreakdownKeys) |-> breakdown[BreakdownKeys[k]].support_percentage])

\* p is count / total * 100 rounded to two decimals
IsRoundedPercentage(p, count, total) == 2 * Abs(p * total - count * 10000) <= total

BreakdownWellFormed(breakdown, tolerance2) ==
    /\ total_analyzed > 0 =>
          /\ 2 * Abs(PercentageSum(breakdown) - 10000) <= tolerance2
          /\ \A o \in DOMAIN breakdown :
                IsRoundedPercentage(breakdown[o].support_percentage,
                                    breakdown[o].support_count, total_analyzed)
    /\ total_analyzed = 0 => \A o \in DOMAIN breakdown : breakdown[o].support_percentage = 0
    /\ \A o \in DOMAIN breakdown :
          breakdown[o].support_count = 0 => breakdown[o].avg_confidence = 0

\* C10 as stated: percentage invariant: in every record of sentiment
\* resolution the support_percentage values sum to 100 within 0.1 and each is
\* round(count / total_analyzed * 100, 2) when total_analyzed > 0; they are all
\* 0 when total_analyzed = 0; avg_confidence is 0 for an outcome of count 0.
PercentageInvariant ==
    (pc = "done" /\ IsDecided(result)) =>
        BreakdownWellFormed(result.sentiment_breakdown, 20)

\* C10 amended: the support_percentage values sum to 100 within 0.005 per
\* outcome of the breakdown (each is rounded to two decimals), the rest as stated.
PercentageInvariantPerOutcome ==
    (pc = "done" /\ IsDecided(result)) =>
        BreakdownWellFormed(result.sentiment_breakdown, Len(BreakdownKeys))

\* a breakdown whose percentages are more than 0.1 away from 100, with an
\* outcome of count 0
PercentageInvariantWitness ==
    /\ pc = "done"
    /\ IsDecided(result)
    /\ Abs(PercentageSum(result.sentiment_breakdown) - 10000) > 10
    /\ \E o \in DOMAIN outcome_counts : Count(o) = 0

\* the reply items among the first n that the loop accepts for outcome o: judged
\* by a loaded classifier with label o and confidence >= 0.6
AcceptedFor(o, n) ==
    {k \in 1..n : /\ team_classifier = "loaded"
                  /\ ReplyTweets[k].kind = "scored"
                  /\ ReplyTweets[k].score >= ResolverMinConfidence
                  /\ ReplyTweets[k].label = o}

Accepted(n) == UNION {AcceptedFor(o, n) : o \in Range(market_data.outcomes)}

CountSum == SumSeq([k \in 1..Len(BreakdownKeys) |-> Count(BreakdownKeys[k])])

\* C11: tally invariant: at every point of the sentiment loop and in the final
\* record, total_analyzed is the sum of the counts and the number of accepted
\* items among those processed so far, each count is the number of items
\* accepted for its outcome, and no item with missing or blank text has reached
\* the classification model.
TallyInvariant ==
    /\ (pc \in {"classifying", "aggregating", "done"} /\ LoopReached) =>
          /\ total_analyzed = CountSum
          /\ total_analyzed = Cardinality(Accepted(idx))
          /\ \A o \in DOMAIN outcome_counts : Count(o) = Cardinality(AcceptedFor(o, idx))
          /\ \A k \in 1..idx :
                ReplyTweets[k].kind \in {"malformed", "blank"} => k \notin Range(model_calls)
    /\ (pc = "done" /\ IsDecided(result)) =>
          /\ result.total_analyzed = Cardinality(Accepted(Len(ReplyTweets)))
          /\ result.total_analyzed =
                SumSeq([k \in 1..Len(BreakdownKeys) |->
                           result.sentiment_breakdown[BreakdownKeys[k]].support_count])

\* inside the loop, a blank item and a malformed item have been passed and
\* another item has been accepted
TallyInvariantWitness ==
    /\ pc = "classifying"
    /\ idx = 3
    /\ total_analyzed = 1
    /\ model_calls # <<>>
    /\ \E k \in 1..idx : ReplyTweets[k].kind = "blank"
    /\ \E k \in 1..idx : ReplyTweets[k].kind = "malformed"

\* c is count / total rounded to four decimals, in units of 0.0001
IsRoundedShare(c, count, total) == 2 * Abs(c * total - count * 10000) <= total

\* C12: decided record consistency: in every decided record total_analyzed > 0,
\* winning_outcome is one of the outcomes and has count > 0, confidence is
\* round(count of the winner / total_analyzed, 4), and winning_index is a
\* position of the declared outcomes that holds winning_outcome; Yes at 0.9,
\* 0.8, 0.7 and No at 0.75, 0.65 over ['Yes', 'No'] gives winner Yes,
\* total_analyzed 5, confidence 0.6 and winning_index 0.
DecidedRecordConsistency ==
    (pc = "done" /\ IsDecided(result)) =>
        /\ result.total_analyzed > 0
        /\ result.total_analyzed = total_analyzed
        /\ result.winning_outcome \in Range(market_data.outcomes)
        /\ Count(result.winning_outcome) > 0
        /\ IsRoundedShare(result.confidence, Count(result.winning_outcome),
                          result.total_analyzed)
        /\ result.winning_index >= 0
        /\ result.winning_index < Len(market_data.outcomes)
        /\ result.outcomes[result.winning_index + 1] = result.winning_outcome
        /\ result.outcomes = market_data.outcomes
        /\ (market_data.outcomes = YesNo /\ ReplyTweets = ScenarioBatch) =>
              /\ result.winning_outcome = "Yes"
              /\ result.total_analyzed = 5
              /\ result.confidence = 6000
              /\ result.winning_index = 0

\* the decided record of the scenario
DecidedRecordConsistencyWitness ==
    /\ pc = "done"
    /\ IsDecided(result)
    /\ market_data.outcomes = YesNo
    /\ ReplyTweets = ScenarioBatch
    /\ result.confidence = 6000

\* C15: lazy single initialisation: a handle that exists is never replaced or
\* loaded again, and a handle comes into existence only in the initialisation
\* step of a call on a valid market dispatched to sentiment.
LazySingleInitialisation ==
    [][ /\ sentiment_analyzer # None => sentiment_analyzer' = sentiment_analyzer
        /\ team_classifier # None => team_classifier' = team_classifier
        /\ handles' # handles =>
              /\ pc = "initializing"
              /\ Valid(market_data)
              /\ Method(market_data) = "sentiment" ]_vars

\* a later sentiment call runs its loop on the handles left by an earlier call
\* whose load of the team classifier failed
LazySingleInitialisationWitness ==
    /\ pc = "classifying"
    /\ sentiment_analyzer = "loaded"
    /\ team_classifier = "constructed"

\* the record of a MarketResolver without history for the current market, when
\* the models load and judge as they do for this call
FreshRecord ==
    LET tally == TallyBatch("loaded", market_data.outcomes, ReplyTweets)
    IN  Finalize(market_data, tally.counts, tally.total)

\* C16: statelessness across invocations: a call that reaches the loop starts
\* its counters from zero and returns the record that a resolver without
\* history returns for the same market and the same behaviour of the models.
Statelessness ==
    /\ (pc = "classifying" /\ idx = 0) =>
          total_analyzed = 0 /\ outcome_counts = InitialCounts(market_data.outcomes)
    /\ (pc = "done" /\ LoopReached) => result = FreshRecord

\* the terminal records allowed after each state of a call
PathAllowed ==
    /\ pc = "idle" => pc' = "validating"
    /\ pc = "validating" => /\ pc' \in {"dispatching", "done"}
                            /\ pc' = "done" => IsError(result')
    /\ pc = "dispatching" => /\ pc' \in {"initializing", "done"}
                             /\ pc' = "done" => IsPending(result') \/ IsError(result')
    /\ pc = "initializing" => /\ pc' \in {"classifying", "done"}
                              /\ pc' = "done" => IsError(result')
    /\ pc = "classifying" => pc' \in {"classifying", "aggregating"}
    /\ pc = "aggregating" => /\ pc' = "done"
                             /\ IsDecided(result') \/ IsPending(result')
    /\ pc = "done" => pc' = "idle"

\* C17: per-call state machine: a call goes VALIDATING -> ERROR, or VALIDATING
\* -> DISPATCHING -> {PENDING, ERROR}, or VALIDATING -> DISPATCHING ->
\* CLASSIFYING -> AGGREGATING -> {DECIDED, PENDING}; a record is emitted only on
\* entering the terminal state, nothing is classified after it, and no reply
\* item is submitted to the classifier twice.
PerCallStateMachine ==
    [][ /\ PathAllowed
        /\ pc' # "done" => result' = NoResult
        /\ pc = "done" => classify_calls' = <<>> /\ model_calls' = <<>>
        /\ Cardinality(Range(classify_calls')) = Len(classify_calls') ]_vars

\* C19: default resolution method: a market with market_id, question and a
\* valid outcomes list that omits resolution_method is resolved by sentiment:
\* the call goes on to initialisation and classification and does not end in
\* an error record of validation or dispatch.
DefaultResolutionMethod ==
    [][ ( /\ market_data.kind = "dict"
          /\ {"market_id", "question", "outcomes"} \subseteq market_data.fields
          /\ "resolution_method" \notin market_data.fields
          /\ market_data.outcomes_is_list
          /\ Len(market_data.outcomes) >= 2
          /\ pc \in {"validating", "dispatching"} )
        => pc' \in {"dispatching", "initializing"} ]_vars

\* classify_teams has returned its result of the normal shape
TeamsReturned == teams_pc = "done" /\ "error" \notin DOMAIN teams_result /\ ~IsRaised(teams_result)

\* the tweets of the input that qualify as supporters of team t: judged with
\* label t and a confidence that the classifier keeps
Qualifying(t) ==
    {k \in 1..Len(data.tweets) : /\ data.tweets[k].kind = "scored"
                                 /\ data.tweets[k].score >= ClassifierMinConfidence
                                 /\ data.tweets[k].label = t}

Min(a, b) == IF a < b THEN a ELSE b

\* C13: supporter cap: in the result of classify_teams each team's supporters
\* list has length min(count, 100) and is sorted by confidence in
\* non-increasing order, every retained supporter has a confidence at least
\* that of every dropped supporter of the team, and count is the number of
\* qualifying tweets, not reduced by the truncation.
SupporterCap ==
    TeamsReturned =>
        \A t \in DOMAIN teams_result.team_stats :
            LET stats == teams_result.team_stats[t]
                kept == {stats.supporters[k].tweet : k \in 1..Len(stats.supporters)}
            IN  /\ stats.count = Cardinality(Qualifying(t))
                /\ Len(stats.supporters) = Min(stats.count, 100)
                /\ Cardinality(kept) = Len(stats.supporters)
                /\ kept \subseteq Qualifying(t)
                /\ \A k \in 1..Len(stats.supporters) :
                      stats.supporters[k].confidence =
                          data.tweets[stats.supporters[k].tweet].score
                /\ \A k \in 1..(Len(stats.supporters) - 1) :
                      stats.supporters[k].confidence >= stats.supporters[k + 1].confidence
                /\ \A k \in kept : \A d \in Qualifying(t) \ kept :
                      data.tweets[k].score >= data.tweets[d].score

\* a team with more than 100 qualifying tweets, whose dropped supporters came
\* in before retained ones of higher confidence
SupporterCapWitness ==
    /\ TeamsReturned
    /\ \E t \in DOMAIN teams_result.team_stats :
          LET stats == teams_result.team_stats[t]
              kept == {stats.supporters[k].tweet : k \in 1..Len(stats.supporters)}
          IN  /\ stats.count > 100
              /\ Len(stats.supporters) = 100
              /\ \E d \in Qualifying(t) \ kept : \E k \in kept :
                    d < k /\ data.tweets[d].score < data.tweets[k].score

\* the winning team holds at least 95% of the classified tweets
WinnerDominates ==
    /\ total_classified > 0
    /\ winning_team # None
    /\ team_stats[winning_team].count * 100 >= 95 * total_classified

Unclassified(tweet) ==
    \/ tweet.kind # "scored"
    \/ tweet.score < ResolverMinConfidence
    \/ tweet.label \notin Range(data.teams)

TeamCountSum(stats) ==
    SumSeq([k \in 1..Len(DictKeys(data.teams)) |-> stats[DictKeys(data.teams)[k]].count])

\* C18: unclassified accounting in classify_teams: a well-formed tweet whose
\* judgment has no label, or confidence below 0.6, or a label that is not a
\* team adds one to unclassified_count and changes no team's statistics; any
\* other well-formed tweet adds one to exactly one team's count; so the
\* counts and unclassified_count add up to the number of well-formed tweets.
UnclassifiedAccounting ==
    [][ (teams_pc = "loop" /\ tweet_idx' = tweet_idx + 1) =>
          LET tweet == data.tweets[tweet_idx + 1]
          IN  /\ WellFormed(tweet) =>
                    IF Unclassified(tweet)
                    THEN /\ unclassified_count' = unclassified_count + 1
                         /\ team_stats' = team_stats
                    ELSE /\ unclassified_count' = unclassified_count
                         /\ \E t \in DOMAIN team_stats :
                               /\ team_stats'[t].count = team_stats[t].count + 1
                               /\ \A u \in DOMAIN team_stats \ {t} :
                                     team_stats'[u] = team_stats[u]
              /\ TeamCountSum(team_stats') + unclassified_count' =
                    Cardinality({k \in 1..tweet_idx' : WellFormed(data.tweets[k])}) ]_vars

TeamCount(t) == teams_result.team_stats[t].count

\* the teams that hold at least half of the classified tweets
HalfHolders == {t \in DOMAIN teams_result.team_stats :
                   2 * TeamCount(t) >= teams_result.total_classified}

HandleReadiness ==
    (pc = "classifying" \/ classify_calls # <<>>) => team_classifier = "loaded"

\* the tweets of the input that analyze_sentiment_hf does not skip
Analyzable == {k \in 1..Len(hf_tweets.items) :
                  WellFormed(hf_tweets.items[k]) /\ hf_tweets.items[k].kind # "blank"}

\* C22: analyze_sentiment_hf aggregates successful predictions: for an array
\* with at least one well-formed tweet of non-blank text, all of whose
\* predictions succeed, the result is not an error record, its sample_size is
\* the number of well-formed non-blank tweets and its outcome is POSITIVE,
\* NEGATIVE or NEUTRAL.
AggregatesSuccessfulPredictions ==
    ( /\ hf_pc = "done"
      /\ hf_tweets.kind = "list"
      /\ analyzer = "loaded"
      /\ Analyzable # {}
      /\ \A k \in Analyzable : hf_tweets.items[k].kind = "scored" )
    => /\ "error" \notin DOMAIN hf_result
       /\ hf_result.sample_size = Cardinality(Analyzable)
       /\ hf_result.outcome \in {"POSITIVE", "NEGATIVE", "NEUTRAL"}

====
